---- MODULE Spec2Model ----
(***************************************************************************)
(* Model of adafruit_display_shapes/sparkline.py: the Sparkline class, a   *)
(* displayio.Group of Line objects drawn from a bounded list of samples.   *)
(*                                                                         *)
(* Samples are integers, so every float expression of the source is an     *)
(* exact rational here; int() is truncation toward zero of that rational.  *)
(* The one place where IEEE-754 double rounding changes an int() result on *)
(* the values modelled is _xintercept (see FloatShort).                    *)
(* An Optional value is a sequence: <<>> is None and <<v>> is the value v. *)
(* A method that raises leaves the object in the state it had reached and  *)
(* records the exception in err; the object stays usable afterwards.       *)
(***************************************************************************)
EXTENDS Integers, Sequences, FiniteSets

\* ------------------------------------------------------------------ bounds

\* Largest max_items a Sparkline is constructed with.
MaxItems == 3
\* Largest number of non-None add_value calls between two clear_values calls.
MaxPush == 4

\* Constructor arguments and samples the model draws from.
Widths == {0, 1, 3, 10, 14}
Heights == {0, 10}
Capacities == 0..MaxItems
Samples == {-5, 0, 5, 15}
YMins == {<<>>, <<0>>, <<15>>}
YMaxs == {<<>>, <<10>>}
\* the values a caller appends to the list values() returned, and the
\* add_value arguments of the runs with such a caller
CallerSamples == {15}
CallerPushes == {<<>>, <<5>>}

\* ------------------------------------------------------- python primitives

None == <<>>

Some(v) == <<v>>

\* color's default argument value, 0xFFFFFF
WHITE == 16777215

\* the amount by which update() widens an empty y range on either side
GUARD == 10

\* int(n / d) for d # 0: truncation toward zero
int(n, d) ==
    LET a == IF d < 0 THEN -n ELSE n
        b == IF d < 0 THEN -d ELSE d
    IN  IF a >= 0 THEN a \div b ELSE -((-a) \div b)

\* min(list) and max(list) of a non-empty list
min(list) == CHOOSE m \in {list[i] : i \in DOMAIN list} :
                 \A i \in DOMAIN list : m <= list[i]

max(list) == CHOOSE m \in {list[i] : i \in DOMAIN list} :
                 \A i \in DOMAIN list : m >= list[i]

\* mutant of pop0: list.pop(), which drops the newest sample
pop_last(list) == SubSeq(list, 1, Len(list) - 1)

\* list.pop(0) on a non-empty list
pop0(list) == SubSeq(list, 2, Len(list))

\* ------------------------------------------------------------------- state

VARIABLES
    width,        \* self.width
    height,       \* self.height
    color,        \* self.color
    _max_items,   \* self._max_items
    y_min,        \* self.y_min (Optional)
    y_max,        \* self.y_max (Optional)
    _spark_list,  \* self._spark_list
    y_bottom,     \* self.y_bottom (Optional)
    y_top,        \* self.y_top (Optional)
    group,        \* the Line objects held by self (the displayio.Group), in order;
                  \* each carries the arguments of the _plotline call that made it
    op,           \* the method called last ("__init__" after construction)
    arg,          \* the value argument of the last add_value call (Optional)
    err,          \* "ok" or the exception the last call raised
    pushed,       \* history: the non-None values given to add_value since
                  \* construction or the last clear_values, in call order
    returned,     \* the contents of the list object the caller got from its
                  \* last values() call (<<>> before any)
    held          \* that object: "none" before any values() call, "same" while
                  \* it is the object self._spark_list refers to, "other" once
                  \* self._spark_list refers to another list

vars == <<width, height, color, _max_items, y_min, y_max, _spark_list,
          y_bottom, y_top, group, op, arg, err, pushed, returned, held>>

config == <<width, height, color, _max_items, y_min, y_max>>

\* -------------------------------------------------------------- _xintercept

\* The arguments <<x_1, y_1, x_2, y_2, horizontal_y>>, among those the
\* bounds above produce, for which the double arithmetic of _xintercept
\*     slope = (y_2 - y_1) / (x_2 - x_1)     (a rounded quotient, here k / 7)
\*     b     = y_1 - slope * x_1
\*     xint  = (horizontal_y - b) / slope
\* ends just below the whole number the exact quotient is (5.999999999999998
\* for 6), so that int(xint) is one less.  They all belong to the
\* pair x 6..13 of three samples on width 14.
FloatShort ==
    { <<6, -5, 13, 0, 0>>,   <<6, -5, 13, 0, 5>>,   <<6, -5, 13, 0, 10>>,
      <<6, -5, 13, 5, 5>>,   <<6, -5, 13, 5, 15>>,  <<6, -5, 13, 5, 25>>,
      <<6, -5, 13, 15, 15>>, <<6, 0, 13, 5, 5>>,    <<6, 5, 13, 0, 5>>,
      <<6, 5, 13, 15, 15>>,  <<6, 15, 13, -5, -5>>, <<6, 15, 13, -5, 15>>,
      <<6, 15, 13, 5, -5>>,  <<6, 15, 13, 5, 5>>,   <<6, 15, 13, 5, 15>> }

\* Sparkline._xintercept: [err, ret] with ret Optional.  slope is
\* (y_2 - y_1) / (x_2 - x_1) and the returned int is
\* int((horizontal_y - (y_1 - slope * x_1)) / slope), computed in doubles.
_xintercept(x_1, y_1, x_2, y_2, horizontal_y) ==
    IF x_2 = x_1
    THEN [err |-> "ZeroDivisionError", ret |-> None]
    ELSE IF y_2 = y_1 /\ y_1 # horizontal_y
    THEN [err |-> "ok", ret |-> None]
    ELSE IF y_2 = y_1
    THEN [err |-> "ZeroDivisionError", ret |-> None]
    ELSE LET exact == int(x_1 * (y_2 - y_1) + (horizontal_y - y_1) * (x_2 - x_1),
                          y_2 - y_1)
         IN  [err |-> "ok",
              ret |-> Some(IF <<x_1, y_1, x_2, y_2, horizontal_y>> \in FloatShort
                           THEN exact - 1 ELSE exact)]

\* ---------------------------------------------------------------- _plotline

\* mutant of PixelY: the mapping without the inversion (y_bottom at row 0)
PixelY_upright(value, bottom, top) == int(height * (value - bottom), top - bottom)

\* the pixel row of a value: int(self.height * (y_top - value) / (y_top - y_bottom))
PixelY(value, bottom, top) == int(height * (top - value), top - bottom)

\* Sparkline._plotline: [err, lines], lines holding the Line appended (if any).
\* count is the index of the pair's second sample in the enumerate loop.
_plotline(count, x_1, last_value, x_2, value, bottom, top) ==
    IF top = bottom
    THEN [err |-> "ZeroDivisionError", lines |-> <<>>]
    ELSE [err |-> "ok",
          lines |-> << [x_1 |-> x_1, y_1 |-> PixelY(last_value, bottom, top),
                        x_2 |-> x_2, y_2 |-> PixelY(value, bottom, top),
                        color |-> color,
                        count |-> count, last_value |-> last_value,
                        value |-> value] >>]

\* ------------------------------------------------------------------- update

\* int(xpitch * k) with xpitch = (self.width - 1) / (len(self._spark_list) - 1),
\* for a list of n > 2 samples
PixelX(n, k) == int((width - 1) * k, n - 1)

\* "both points are in range"
BothInRange(last_value, value, bottom, top) ==
    (bottom <= last_value /\ last_value <= top)
    /\ (bottom <= value /\ value <= top)

\* mutant of SameSide: only the side above y_top is tested
SameSide_upper_only(last_value, value, bottom, top) ==
    last_value > top /\ value > top

\* "both points are on the same side out of range"
SameSide(last_value, value, bottom, top) ==
    \/ (last_value > top /\ value > top)
    \/ (last_value < bottom /\ value < bottom)

\* One pass of the body of update()'s enumerate loop for count >= 1, on the
\* samples list[count] (last_value) and list[count + 1] (value), sequences
\* being 1-based: [err, lines].  xpitch is (self.width - 1) / (len(list) - 1).
PlotPair(list, count, bottom, top) ==
    LET value == list[count + 1]
        last_value == list[count]
        x_2 == PixelX(Len(list), count)
        x_1 == PixelX(Len(list), count - 1)
    IN  IF BothInRange(last_value, value, bottom, top)
        THEN _plotline(count, x_1, last_value, x_2, value, bottom, top)
        ELSE IF SameSide(last_value, value, bottom, top)
        THEN [err |-> "ok", lines |-> <<>>]
        ELSE
          LET xb == _xintercept(x_1, last_value, x_2, value, bottom)
              xt == _xintercept(x_1, last_value, x_2, value, top)
          IN  IF xb.err # "ok" THEN [err |-> xb.err, lines |-> <<>>]
              ELSE IF xt.err # "ok" THEN [err |-> xt.err, lines |-> <<>>]
              ELSE IF xb.ret = None \/ xt.ret = None
              THEN [err |-> "ok", lines |-> <<>>]
              ELSE
                LET xint_bottom == xb.ret[1]
                    xint_top == xt.ret[1]
                    positive == value > last_value
                    clip_1 == IF positive THEN xint_bottom >= x_1
                                          ELSE xint_top >= x_1
                    clip_2 == IF positive THEN xint_top <= x_2
                                          ELSE xint_bottom <= x_2
                    adj_x_1 == IF ~clip_1 THEN x_1
                               ELSE IF positive THEN xint_bottom ELSE xint_top
                    adj_last_value == IF ~clip_1 THEN last_value
                                      ELSE IF positive THEN bottom ELSE top
                    adj_x_2 == IF ~clip_2 THEN x_2
                               ELSE IF positive THEN xint_top ELSE xint_bottom
                    adj_value == IF ~clip_2 THEN value
                                 ELSE IF positive THEN top ELSE bottom
                IN  _plotline(count, adj_x_1, adj_last_value, adj_x_2, adj_value,
                              bottom, top)

\* update()'s enumerate loop from index count on, acc being the lines appended
\* so far: it ends at the first exception.
RECURSIVE DrawLoop(_, _, _, _, _)
DrawLoop(list, count, bottom, top, acc) ==
    IF count > Len(list) - 1
    THEN [err |-> "ok", lines |-> acc]
    ELSE LET r == PlotPair(list, count, bottom, top)
         IN  IF r.err # "ok"
             THEN [err |-> r.err, lines |-> acc]
             ELSE DrawLoop(list, count + 1, bottom, top, acc \o r.lines)

\* mutant of Widen: no guard
Widen_none(bottom, top) == <<bottom, top>>

\* "Guard for y_top and y_bottom being the same": <<y_bottom, y_top>>
Widen(bottom, top) ==
    IF top = bottom THEN <<bottom - GUARD, top + GUARD>> ELSE <<bottom, top>>

\* mutant of update: the lines of the earlier redraw are not popped before
\* the new ones are appended
update_keeps_lines(list) ==
    IF y_min = None /\ list = <<>>
    THEN [err |-> "ValueError", y_bottom |-> y_bottom, y_top |-> y_top,
          group |-> group]
    ELSE
      LET bottom0 == IF y_min = None THEN min(list) ELSE y_min[1]
      IN  IF y_max = None /\ list = <<>>
          THEN [err |-> "ValueError", y_bottom |-> Some(bottom0), y_top |-> y_top,
                group |-> group]
          ELSE
            LET top0 == IF y_max = None THEN max(list) ELSE y_max[1]
                bottom == Widen(bottom0, top0)[1]
                top == Widen(bottom0, top0)[2]
            IN  IF Len(list) > 2
                THEN LET d == DrawLoop(list, 1, bottom, top, group)
                     IN  [err |-> d.err, y_bottom |-> Some(bottom),
                          y_top |-> Some(top), group |-> d.lines]
                ELSE [err |-> "ok", y_bottom |-> Some(bottom),
                      y_top |-> Some(top), group |-> group]

\* Sparkline.update() run with self._spark_list = list: the exception raised
\* (or "ok") and the fields it leaves behind.
update(list) ==
    IF y_min = None /\ list = <<>>
    THEN [err |-> "ValueError", y_bottom |-> y_bottom, y_top |-> y_top,
          group |-> group]
    ELSE
      LET bottom0 == IF y_min = None THEN min(list) ELSE y_min[1]
      IN  IF y_max = None /\ list = <<>>
          THEN [err |-> "ValueError", y_bottom |-> Some(bottom0), y_top |-> y_top,
                group |-> group]
          ELSE
            LET top0 == IF y_max = None THEN max(list) ELSE y_max[1]
                bottom == Widen(bottom0, top0)[1]
                top == Widen(bottom0, top0)[2]
            IN  IF Len(list) > 2
                THEN LET d == DrawLoop(list, 1, bottom, top, <<>>)
                     IN  [err |-> d.err, y_bottom |-> Some(bottom),
                          y_top |-> Some(top), group |-> d.lines]
                ELSE [err |-> "ok", y_bottom |-> Some(bottom),
                      y_top |-> Some(top), group |-> group]

\* Sparkline.values()
values == _spark_list

\* ----------------------------------------------------------------- actions

\* the constructor arguments the specification allows: capacity >= 1 and a
\* positive width and height
ValidConfig == _max_items >= 1 /\ width >= 1 /\ height >= 1

\* Sparkline.__init__ with arguments from the sets above (x, y and the
\* displayio.Group position play no part in the drawing)
Init ==
    /\ width \in Widths
    /\ height \in Heights
    /\ color = WHITE
    /\ _max_items \in Capacities
    /\ y_min \in YMins
    /\ y_max \in YMaxs
    /\ _spark_list = <<>>
    /\ y_bottom = y_min
    /\ y_top = y_max
    /\ group = <<>>
    /\ op = "__init__"
    /\ arg = None
    /\ err = "ok"
    /\ pushed = <<>>
    /\ returned = <<>>
    /\ held = "none"

\* Sparkline.add_value(value), value Optional.  pop(0) and append change the
\* list object in place, so a caller holding that object sees the change.
AddValue(value) ==
    /\ value # None => Len(pushed) < MaxPush
    /\ op' = "add_value"
    /\ arg' = value
    /\ pushed' = IF value = None THEN pushed ELSE Append(pushed, value[1])
    /\ IF value = None
       THEN /\ err' = "ok"
            /\ UNCHANGED <<_spark_list, y_bottom, y_top, group>>
       ELSE IF Len(_spark_list) >= _max_items /\ _spark_list = <<>>
       THEN /\ err' = "IndexError"
            /\ UNCHANGED <<_spark_list, y_bottom, y_top, group>>
       ELSE LET list == Append(IF Len(_spark_list) >= _max_items
                               THEN pop0(_spark_list) ELSE _spark_list,
                               value[1])
                u == update(list)
            IN  /\ _spark_list' = list
                /\ err' = u.err
                /\ y_bottom' = u.y_bottom
                /\ y_top' = u.y_top
                /\ group' = u.group
    /\ returned' = IF held = "same" THEN _spark_list' ELSE returned
    /\ UNCHANGED <<config, held>>

\* Sparkline.update() called by the user
Update ==
    LET u == update(_spark_list)
    IN  /\ op' = "update"
        /\ arg' = None
        /\ err' = u.err
        /\ y_bottom' = u.y_bottom
        /\ y_top' = u.y_top
        /\ group' = u.group
        /\ UNCHANGED <<_spark_list, pushed, returned, held>>
        /\ UNCHANGED config

\* mutant of ClearValues: the lines of the group are left in place
ClearValues_keeps_lines ==
    /\ op' = "clear_values"
    /\ arg' = None
    /\ err' = "ok"
    /\ group' = group
    /\ _spark_list' = <<>>
    /\ pushed' = <<>>
    /\ held' = IF held = "same" THEN "other" ELSE held
    /\ UNCHANGED <<y_bottom, y_top, returned>>
    /\ UNCHANGED config

\* Sparkline.clear_values(): every line is popped and self._spark_list is
\* bound to a new empty list, the old list object staying as it was
ClearValues ==
    /\ op' = "clear_values"
    /\ arg' = None
    /\ err' = "ok"
    /\ group' = <<>>
    /\ _spark_list' = <<>>
    /\ pushed' = <<>>
    /\ held' = IF held = "same" THEN "other" ELSE held
    /\ UNCHANGED <<y_bottom, y_top, returned>>
    /\ UNCHANGED config

\* Sparkline.values() called by the user: the list object itself is returned
Values ==
    /\ op' = "values"
    /\ arg' = None
    /\ err' = "ok"
    /\ returned' = values
    /\ held' = "same"
    /\ UNCHANGED <<_spark_list, y_bottom, y_top, group, pushed>>
    /\ UNCHANGED config

\* the caller appends v to the list object values() returned
CallerAppend(v) ==
    /\ held # "none"
    /\ Len(returned) < MaxPush
    /\ op' = "caller"
    /\ arg' = None
    /\ err' = "ok"
    /\ returned' = Append(returned, v)
    /\ _spark_list' = IF held = "same" THEN returned' ELSE _spark_list
    /\ UNCHANGED <<y_bottom, y_top, group, pushed, held>>
    /\ UNCHANGED config

Next ==
    \/ \E value \in {None} \cup {Some(v) : v \in Samples} : AddValue(value)
    \/ Update
    \/ ClearValues

Spec == Init /\ [][Next]_vars

\* The same object with a caller that keeps the list values() returns and
\* appends to it, for a 10 x 10 sparkline with the fixed range 0..10.
InitCaller ==
    /\ Init
    /\ ValidConfig
    /\ width = 10 /\ height = 10
    /\ y_min = Some(0) /\ y_max = Some(10)

NextCaller ==
    \/ \E value \in CallerPushes : AddValue(value)
    \/ Update
    \/ ClearValues
    \/ Values
    \/ \E v \in CallerSamples : CallerAppend(v)

SpecCaller == InitCaller /\ [][NextCaller]_vars

\* ------------------------------------------------------------------ claims

\* the last call ran update() on the buffer: update() itself, or an add_value
\* that stored its value
Redrawn ==
    \/ op = "update"
    \/ (op = "add_value" /\ arg # None /\ err # "IndexError")

\* the pixel x of sample k (0-based) of the buffer: int(xpitch * k)
SampleX(k) == int((width - 1) * k, Len(_spark_list) - 1)

\* sample v lies outside [y_bottom, y_top]
Outside(v) == v < y_bottom[1] \/ v > y_top[1]

\* the boundary value on v's side of the range, for v outside it
BoundaryOf(v) == IF v < y_bottom[1] THEN y_bottom[1] ELSE y_top[1]

\* the pair (sample i, sample i + 1), 1-based, is both above or both below
Culled(i) ==
    \/ (_spark_list[i] > y_top[1] /\ _spark_list[i + 1] > y_top[1])
    \/ (_spark_list[i] < y_bottom[1] /\ _spark_list[i + 1] < y_bottom[1])

\* the pair straddles a bound: a sample outside, the two not on one side
Straddles(i) ==
    /\ Outside(_spark_list[i]) \/ Outside(_spark_list[i + 1])
    /\ ~Culled(i)

\* C1: with capacity C >= 1, values() holds exactly the last min(N, C) of the
\* N non-None values pushed since construction or the last clear_values, oldest
\* first; its length never exceeds C, and a None push (which adds nothing to
\* the history) changes neither its length nor its contents.
C1_CapacityInvariant ==
    _max_items >= 1 =>
        LET N == Len(pushed)
            k == IF N < _max_items THEN N ELSE _max_items
        IN  /\ Len(values) = k
            /\ Len(values) <= _max_items
            /\ values = SubSeq(pushed, N - k + 1, N)

\* C1 witness: more values pushed than the capacity, then a None push
C1_Witness ==
    /\ _max_items >= 1
    /\ Len(pushed) > _max_items
    /\ op = "add_value" /\ arg = None
    /\ Len(values) = _max_items

\* C2: a redraw of n > 2 samples that all lie within [y_bottom, y_top] does
\* not raise and leaves exactly n - 1 lines, the i-th made from the i-th
\* consecutive pair, each endpoint's y being the truncated linear mapping
\* height * (y_top - v) / (y_top - y_bottom) of its sample v.
C2_InRangePassthrough ==
    (/\ Redrawn
     /\ Len(_spark_list) > 2
     /\ \A i \in DOMAIN _spark_list :
            y_bottom[1] <= _spark_list[i] /\ _spark_list[i] <= y_top[1])
    => /\ err = "ok"
       /\ Len(group) = Len(_spark_list) - 1
       /\ \A i \in 1..(Len(_spark_list) - 1) :
            /\ group[i].count = i
            /\ group[i].y_1 = int(height * (y_top[1] - _spark_list[i]),
                                  y_top[1] - y_bottom[1])
            /\ group[i].y_2 = int(height * (y_top[1] - _spark_list[i + 1]),
                                  y_top[1] - y_bottom[1])

\* C2 witness: three in-range samples drawn as two sloping lines
C2_Witness ==
    /\ Redrawn /\ err = "ok"
    /\ Len(_spark_list) = 3
    /\ \A i \in DOMAIN _spark_list :
          y_bottom[1] <= _spark_list[i] /\ _spark_list[i] <= y_top[1]
    /\ Len(group) = 2
    /\ ValidConfig /\ width > 1
    /\ group[1].y_1 # group[1].y_2
    /\ group[2].y_1 # group[2].y_2

\* C3, with "between x1 and x2" read as the closed interval (the reading a
\* truncation to whole pixels leaves room for), for valid constructor
\* arguments and a resolved range with y_bottom < y_top: every line a redraw
\* emits for a straddling pair carries the boundary value on each clipped
\* endpoint, whose x lies from the pair's x1 to its x2; a redraw that
\* completes emits such a line for every straddling pair.
C3_ClippedWithinPair ==
    (ValidConfig /\ Redrawn /\ Len(_spark_list) > 2 /\ y_bottom[1] < y_top[1]) =>
        /\ \A j \in DOMAIN group :
             LET i == group[j].count
             IN  Straddles(i) =>
                   /\ Outside(_spark_list[i]) =>
                        /\ group[j].last_value = BoundaryOf(_spark_list[i])
                        /\ SampleX(i - 1) <= group[j].x_1
                        /\ group[j].x_1 <= SampleX(i)
                   /\ Outside(_spark_list[i + 1]) =>
                        /\ group[j].value = BoundaryOf(_spark_list[i + 1])
                        /\ SampleX(i - 1) <= group[j].x_2
                        /\ group[j].x_2 <= SampleX(i)
        /\ err = "ok" =>
             \A i \in 1..(Len(_spark_list) - 1) :
                 Straddles(i) => \E j \in DOMAIN group : group[j].count = i

\* C4 as stated: for a positive width (and height and capacity) a redraw of
\* n > 2 samples, in range or not, completes without raising.
C4_NeverRaises ==
    (ValidConfig /\ Redrawn /\ Len(_spark_list) > 2) => err = "ok"

\* C5 as stated: a redraw on a buffer of 0, 1 or 2 samples succeeds and
\* leaves no line, whatever the axis configuration.
C5_NoDrawBelowThreshold ==
    (ValidConfig /\ Redrawn /\ Len(_spark_list) <= 2) =>
        /\ err = "ok"
        /\ group = <<>>

\* C6: after a redraw of n > 2 samples no line comes from a pair of samples
\* both above y_top or both below y_bottom, and every other pair has its line,
\* up to the pair (if any) at which the redraw raised.
C6_SameSideCulling ==
    (Redrawn /\ Len(_spark_list) > 2) =>
        /\ \A j \in DOMAIN group : ~Culled(group[j].count)
        /\ \A i \in 1..(Len(_spark_list) - 1) :
             ~Culled(i) =>
                \/ \E j \in DOMAIN group : group[j].count = i
                \/ /\ err # "ok"
                   /\ \A j \in DOMAIN group : group[j].count < i

\* C6 witness: a completed redraw in which a culled pair is followed by a
\* pair that is drawn
C6_Witness ==
    /\ ValidConfig /\ Redrawn /\ err = "ok" /\ Len(_spark_list) > 2
    /\ Culled(1)
    /\ ~Culled(2)
    /\ Len(group) = 1 /\ group[1].count = 2

\* C7: once a redraw has resolved the range, y_top differs from y_bottom; when
\* the derived bounds are one value v (as when both edges autoscale and all
\* samples equal v) they are v - 10 and v + 10.
C7_RangeNeverEmpty ==
    (Redrawn /\ err # "ValueError") =>
        LET lower == IF y_min = None THEN min(_spark_list) ELSE y_min[1]
            upper == IF y_max = None THEN max(_spark_list) ELSE y_max[1]
        IN  /\ y_bottom # None /\ y_top # None
            /\ y_top[1] # y_bottom[1]
            /\ lower = upper => (y_bottom[1] = lower - 10 /\ y_top[1] = upper + 10)
            /\ lower # upper => (y_bottom[1] = lower /\ y_top[1] = upper)

\* C7 witness: both edges autoscale, three equal samples, the range widened
C7_Witness ==
    /\ Redrawn /\ err = "ok"
    /\ y_min = None /\ y_max = None
    /\ Len(_spark_list) = 3
    /\ \A i \in DOMAIN _spark_list : _spark_list[i] = _spark_list[1]
    /\ y_top[1] - y_bottom[1] = 20
    /\ ValidConfig /\ Len(group) = 2

\* C8: a clear_values call leaves the buffer empty and the group without
\* lines, and changes none of max_items, y_min, y_max, width, height, color.
C8_ClearFrame ==
    [][op' = "clear_values" =>
          /\ _spark_list' = <<>>
          /\ group' = <<>>
          /\ _max_items' = _max_items
          /\ y_min' = y_min /\ y_max' = y_max
          /\ width' = width /\ height' = height
          /\ color' = color]_vars

\* C8 witness: clear_values called on a sparkline that had autoscaled its
\* range from samples
C8_Witness ==
    /\ ValidConfig
    /\ op = "clear_values"
    /\ _spark_list = <<>> /\ group = <<>>
    /\ y_min = None /\ y_max = None
    /\ y_bottom # None /\ y_top # None

\* C9 as stated: a caller's change to the sequence values() returned does not
\* change the buffer, and an add_value call does not change a sequence
\* returned earlier.
C9_ReadOnlyView ==
    [][/\ op' = "caller" => _spark_list' = _spark_list
       /\ (op' = "add_value" /\ held # "none") => returned' = returned]_vars

\* C10 as stated: a sparkline with capacity below 1 or a non-positive width
\* or height exists only as a construction that failed with InvalidArgument;
\* in particular none reaches add_value.
C10_ConstructionRejected ==
    ~ValidConfig => (op = "__init__" /\ err = "InvalidArgument")

\* C11: in every state reached by add_value, clear_values and update calls
\* the group holds exactly the lines a redraw of the current buffer makes
\* (all of them, or those made before that redraw raises), one per pair at
\* most and in pair order; so it holds at most len(values()) - 1 lines, and
\* none while the buffer holds 2 or fewer samples.
C11_OnlyLatestRedraw ==
    /\ Len(_spark_list) <= 2 => group = <<>>
    /\ Len(_spark_list) > 2 =>
         /\ Len(group) <= Len(_spark_list) - 1
         /\ \A j \in DOMAIN group :
              /\ group[j].count \in 1..(Len(_spark_list) - 1)
              /\ j > 1 => group[j - 1].count < group[j].count
         /\ group = DrawLoop(_spark_list, 1, y_bottom[1], y_top[1], <<>>).lines

\* C11 witness: the buffer has evicted a sample, so its two lines replace
\* those of an earlier redraw of three samples
C11_Witness ==
    /\ ValidConfig /\ Redrawn /\ err = "ok"
    /\ Len(pushed) > Len(_spark_list)
    /\ Len(_spark_list) = 3
    /\ Len(group) = 2
    /\ _spark_list[1] # pushed[1]

\* C12 as stated, for valid constructor arguments and a resolved range with
\* y_bottom < y_top: every line of the group has both endpoint values within
\* [y_bottom, y_top], both pixel rows within [0, height], both pixel columns
\* within [0, width - 1], and x_1 <= x_2.
C12_InsideViewport ==
    (ValidConfig /\ Len(_spark_list) > 2 /\ y_bottom[1] < y_top[1]) =>
        \A j \in DOMAIN group :
            /\ y_bottom[1] <= group[j].last_value /\ group[j].last_value <= y_top[1]
            /\ y_bottom[1] <= group[j].value /\ group[j].value <= y_top[1]
            /\ 0 <= group[j].y_1 /\ group[j].y_1 <= height
            /\ 0 <= group[j].y_2 /\ group[j].y_2 <= height
            /\ 0 <= group[j].x_1 /\ group[j].x_1 <= width - 1
            /\ 0 <= group[j].x_2 /\ group[j].x_2 <= width - 1
            /\ group[j].x_1 <= group[j].x_2

\* C13 as stated, for valid constructor arguments and a resolved range with
\* y_bottom < y_top: a line drawn for a pair with exactly one sample outside
\* [y_bottom, y_top] keeps, on the endpoint of the sample inside, the
\* sample's own x, its value, and so the pixel row that value maps to.
C13_InRangeEndpointKept ==
    (ValidConfig /\ Redrawn /\ Len(_spark_list) > 2 /\ y_bottom[1] < y_top[1]) =>
        \A j \in DOMAIN group :
            LET i == group[j].count
                first == _spark_list[i]
                second == _spark_list[i + 1]
            IN  /\ (~Outside(first) /\ Outside(second)) =>
                     /\ group[j].x_1 = SampleX(i - 1)
                     /\ group[j].last_value = first
                     /\ group[j].y_1 = PixelY(first, y_bottom[1], y_top[1])
                /\ (Outside(first) /\ ~Outside(second)) =>
                     /\ group[j].x_2 = SampleX(i)
                     /\ group[j].value = second
                     /\ group[j].y_2 = PixelY(second, y_bottom[1], y_top[1])

====
